---- MODULE Spec2Model ----
(***************************************************************************)
(* Model of the MuseAudio tools:                                           *)
(*   emu_to_zenology.py  - the bank encoder (create_zenology_bank)         *)
(*   svza_extractor.py   - the bank decoder (extract_svza)                 *)
(*   convert_sr.py       - the pole transform (convert_shapes_file)        *)
(*                                                                         *)
(* Bytes are integers 0..255 and byte strings are sequences of bytes.      *)
(* Python str values are sequences of character codes (the inputs are      *)
(* ASCII, so str.encode('ascii') is the identity on codes).  In the bank   *)
(* tools Python float values are exact rationals [n |-> numerator,         *)
(* d |-> denominator > 0], which the encoder only adds and averages, and   *)
(* struct.pack('<f', x) is the IEEE-754 binary32 rounding of x.  In the    *)
(* pole transform, where rounding decides what the code does, floats are   *)
(* IEEE-754 binary64 values with correctly rounded arithmetic.             *)
(* An optional dictionary key is a sequence: <<>> absent, <<v>> present.   *)
(***************************************************************************)
EXTENDS Integers, Sequences, FiniteSets, TLC

(***************************************************************************)
(* Bounds of the model.                                                    *)
(***************************************************************************)
MaxPresets == 50        \* longest input preset list

(***************************************************************************)
(* Generic helpers.                                                        *)
(***************************************************************************)
Min(a, b) == IF a <= b THEN a ELSE b

Abs(a) == IF a < 0 THEN 0 - a ELSE a

RECURSIVE Pow2(_)
Pow2(k) == IF k = 0 THEN 1 ELSE 2 * Pow2(k - 1)

RECURSIVE Gcd(_, _)
Gcd(a, b) == IF b = 0 THEN a ELSE Gcd(b, a % b)

\* s[:k] for k >= 0
Take(s, k) == SubSeq(s, 1, Min(k, Len(s)))

\* s[k:] for 0-based k >= 0
Drop(s, k) == SubSeq(s, k + 1, Len(s))

Zeros(k) == [i \in 1..k |-> 0]

\* bytes/str.ljust(width, fill)
ljust(s, width, fill) ==
    IF Len(s) >= width THEN s ELSE s \o [i \in 1..(width - Len(s)) |-> fill]

\* str.rstrip('\x00')
RECURSIVE rstrip0(_)
rstrip0(s) ==
    IF Len(s) > 0 /\ s[Len(s)] = 0 THEN rstrip0(SubSeq(s, 1, Len(s) - 1)) ELSE s

\* needle in hay  (Python substring / sub-bytes test)
Contains(hay, needle) ==
    \E i \in 0..(Len(hay) - Len(needle)) :
        SubSeq(hay, i + 1, i + Len(needle)) = needle

\* hay.find(needle), 0-based, -1 when absent
Find(hay, needle) ==
    IF Contains(hay, needle)
    THEN CHOOSE i \in 0..(Len(hay) - Len(needle)) :
            /\ SubSeq(hay, i + 1, i + Len(needle)) = needle
            /\ \A j \in 0..(i - 1) : SubSeq(hay, j + 1, j + Len(needle)) # needle
    ELSE -1

\* decimal digits of a natural number, as character codes (f"{n}")
RECURSIVE Str(_)
Str(n) == IF n < 10 THEN <<48 + n>> ELSE Str(n \div 10) \o <<48 + (n % 10)>>

\* a dictionary lookup d.get(key, default) on an optional value
Get(opt, default) == IF opt = <<>> THEN default ELSE opt[1]

(***************************************************************************)
(* Python floats as rationals.                                             *)
(***************************************************************************)
Rat(n, d) == [n |-> n, d |-> d]

RatNorm(x) ==
    LET g == Gcd(Abs(x.n), x.d)
    IN  IF x.n = 0 THEN Rat(0, 1) ELSE Rat(x.n \div g, x.d \div g)

RatAdd(x, y) == RatNorm(Rat(x.n * y.d + y.n * x.d, x.d * y.d))

RatDivInt(x, k) == RatNorm(Rat(x.n, x.d * k))

RatLe(x, y) == x.n * y.d <= y.n * x.d

RECURSIVE RatSum(_)
RatSum(xs) == IF xs = <<>> THEN Rat(0, 1) ELSE RatAdd(xs[1], RatSum(Tail(xs)))

(***************************************************************************)
(* struct.pack                                                             *)
(***************************************************************************)
\* struct.pack('<I', v): 4 bytes, little-endian
pack_I(v) ==
    << v % 256, (v \div 256) % 256, (v \div 65536) % 256, (v \div 16777216) % 256 >>

\* struct.pack('<H', v): 2 bytes, little-endian
pack_H(v) == << v % 256, (v \div 256) % 256 >>

\* struct.unpack('<I', b)[0] for values below 2^31
unpack_I(b) == b[1] + 256 * b[2] + 65536 * b[3] + 16777216 * b[4]

\* binary exponent e of a/d > 0: 2^e <= a/d < 2^(e+1)
RECURSIVE ExpUp(_, _, _)
ExpUp(a, d, e) == IF a >= 2 * d THEN ExpUp(a, 2 * d, e + 1) ELSE e

RECURSIVE ExpDown(_, _, _)
ExpDown(a, d, e) == IF a < d THEN ExpDown(2 * a, d, e - 1) ELSE e

FloatExp(a, d) == IF a >= d THEN ExpUp(a, d, 0) ELSE ExpDown(a, d, 0)

\* long division: the 23 fraction bits of r/d (0 <= r < d) and the remainder
RECURSIVE FracBits(_, _, _, _)
FracBits(r, d, k, acc) ==
    IF k = 0 THEN << acc, r >>
    ELSE IF 2 * r >= d THEN FracBits(2 * r - d, d, k - 1, 2 * acc + 1)
         ELSE FracBits(2 * r, d, k - 1, 2 * acc)

\* struct.pack('<f', x): IEEE-754 binary32, round to nearest even, little-endian
\* (normal range only: the values of the model are far from overflow/underflow)
pack_f(x) ==
    IF x.n = 0 THEN << 0, 0, 0, 0 >>
    ELSE
      LET sign == IF x.n < 0 THEN 1 ELSE 0
          a  == Abs(x.n)
          e  == FloatExp(a, x.d)
          \* scaled so that sd <= sa < 2*sd
          sa == IF e < 0 THEN a * Pow2(0 - e) ELSE a
          sd == IF e > 0 THEN x.d * Pow2(e) ELSE x.d
          fr == FracBits(sa - sd, sd, 23, 0)
          up == 2 * fr[2] > sd \/ (2 * fr[2] = sd /\ fr[1] % 2 = 1)
          m  == IF up THEN fr[1] + 1 ELSE fr[1]
          E  == IF m = 8388608 THEN e + 128 ELSE e + 127
          f  == IF m = 8388608 THEN 0 ELSE m
      IN  << f % 256, (f \div 256) % 256,
             (E % 2) * 128 + (f \div 65536), sign * 128 + (E \div 2) >>

(***************************************************************************)
(* Literals of emu_to_zenology.py, as character codes.                     *)
(***************************************************************************)
S_EMU_Preset == <<69, 77, 85, 32, 80, 114, 101, 115, 101, 116, 32>>  \* "EMU Preset "
S_EMU_Init == <<69, 77, 85, 32, 73, 110, 105, 116, 32>>              \* "EMU Init "
S_LFO == <<76, 70, 79>>
S_ENV == <<69, 78, 86>>
S_KEY == <<75, 69, 89>>
S_filter_cutoff == <<102, 105, 108, 116, 101, 114, 46, 99, 117, 116, 111, 102, 102>>
S_filter_t2 == <<102, 105, 108, 116, 101, 114, 46, 116, 50>>

\* source_map of convert_modulation_matrix: <<name, id>> pairs
source_map ==
    << << <<76, 70, 79, 49>>, 0 >>,                    \* "LFO1"
       << <<76, 70, 79, 50>>, 1 >>,                    \* "LFO2"
       << <<69, 78, 86, 49>>, 2 >>,                    \* "ENV1"
       << <<69, 78, 86, 50>>, 3 >>,                    \* "ENV2"
       << <<69, 78, 86, 51>>, 4 >>,                    \* "ENV3"
       << <<69, 78, 86, 52>>, 5 >>,                    \* "ENV4"
       << <<75, 69, 89>>, 6 >>,                        \* "KEY"
       << <<86, 69, 76>>, 7 >>,                        \* "VEL"
       << <<77, 73, 68, 73, 95, 67, 67, 49>>, 8 >>,    \* "MIDI_CC1"
       << <<77, 73, 68, 73, 95, 67, 67, 50>>, 9 >>,    \* "MIDI_CC2"
       << <<77, 73, 68, 73, 95, 67, 67, 55>>, 10 >> >> \* "MIDI_CC7"

\* source_map.get(src, 0)
source_id(src) ==
    IF \E k \in 1..Len(source_map) : source_map[k][1] = src
    THEN source_map[CHOOSE k \in 1..Len(source_map) : source_map[k][1] = src][2]
    ELSE 0

\* zplane_modes.get(mode, 0)
zplane_modes(mode) ==
    IF mode = "Liquid" THEN 1 ELSE IF mode = "Punch" THEN 2 ELSE 0

BankSlots == 32         \* presets per bank: emu_presets[:32], len(preset_entries) < 32
ModSlots == 8           \* modulation slots per preset: mods[:8], range(8)

(***************************************************************************)
(* emu_to_zenology.py: the preset record encoder.                          *)
(* An input preset is [name, rateHz, A : optional; mods : sequence]; a     *)
(* modulation is [src, dst : characters ("" when absent), depth : optional]*)
(***************************************************************************)
ModDepth(m) == Get(m.depth, Rat(0, 1))

extract_cutoff_mods(mods) ==
    LET cutoff_mods == SelectSeq(mods, LAMBDA m : Contains(m.dst, S_filter_cutoff))
        depths == [i \in 1..Len(cutoff_mods) |-> ModDepth(cutoff_mods[i])]
    IN  IF Len(cutoff_mods) > 0
        THEN RatDivInt(RatSum(depths), Len(depths))
        ELSE Rat(1, 2)

extract_t2_mods(mods) ==
    LET t2_mods == SelectSeq(mods, LAMBDA m : Contains(m.dst, S_filter_t2))
        depths == [i \in 1..Len(t2_mods) |-> ModDepth(t2_mods[i])]
    IN  IF Len(t2_mods) > 0
        THEN RatDivInt(RatSum(depths), Len(depths))
        ELSE Rat(1, 5)

\* convert_modulation_matrix keeping one entry too few: mods[:7]
convert_modulation_matrix_seven(mods) ==
    LET kept == Take(mods, ModSlots - 1)
    IN  [i \in 1..Len(kept) |->
            [source |-> source_id(kept[i].src), depth |-> ModDepth(kept[i])]]

convert_modulation_matrix(mods) ==
    LET kept == Take(mods, ModSlots)
    IN  [i \in 1..Len(kept) |->
            [source |-> source_id(kept[i].src), depth |-> ModDepth(kept[i])]]

\* determine_zplane_mode with the Liquid test ahead of the Punch test
determine_zplane_mode_liquid_first(mods) ==
    LET lfo_mods == Len(SelectSeq(mods, LAMBDA m : Contains(m.src, S_LFO)))
        env_mods == Len(SelectSeq(mods, LAMBDA m : Contains(m.src, S_ENV)))
        key_mods == Len(SelectSeq(mods, LAMBDA m : Contains(m.src, S_KEY)))
    IN  IF key_mods >= 5 THEN "Liquid"
        ELSE IF lfo_mods >= 2 /\ env_mods >= 3 THEN "Punch"
        ELSE "Air"

determine_zplane_mode(mods) ==
    LET lfo_mods == Len(SelectSeq(mods, LAMBDA m : Contains(m.src, S_LFO)))
        env_mods == Len(SelectSeq(mods, LAMBDA m : Contains(m.src, S_ENV)))
        key_mods == Len(SelectSeq(mods, LAMBDA m : Contains(m.src, S_KEY)))
    IN  IF lfo_mods >= 2 /\ env_mods >= 3 THEN "Punch"
        ELSE IF key_mods >= 5 THEN "Liquid"
        ELSE "Air"

\* max(0, env_attack)
Max0(x) == IF RatLe(x, Rat(0, 1)) THEN Rat(0, 1) ELSE x

\* preset_entry with the mode taken from the modulations kept in the record
preset_entry_mode_of_kept(i, preset) ==
    LET name == ljust(Take(Get(preset.name, S_EMU_Preset \o Str(i + 1)), 15), 16, 0)
        lfo_rate == Get(preset.rateHz, Rat(1, 2))
        env_attack == Get(preset.A, Rat(0, 1))
        mods == preset.mods
    IN  [ name |-> rstrip0(name),
          filter_cutoff |-> << extract_cutoff_mods(mods) >>,
          filter_resonance |-> << extract_t2_mods(mods) >>,
          lfo1_rate |-> << lfo_rate >>,
          env1_attack |-> << Max0(env_attack) >>,
          modulation_matrix |-> << convert_modulation_matrix(mods) >>,
          emu_character |-> TRUE,
          z_plane_mode |-> << determine_zplane_mode(Take(mods, ModSlots)) >> ]

\* the preset_entry built for the i-th (0-based) input preset
preset_entry(i, preset) ==
    LET name == ljust(Take(Get(preset.name, S_EMU_Preset \o Str(i + 1)), 15), 16, 0)
        lfo_rate == Get(preset.rateHz, Rat(1, 2))
        env_attack == Get(preset.A, Rat(0, 1))
        mods == preset.mods
    IN  [ name |-> rstrip0(name),
          filter_cutoff |-> << extract_cutoff_mods(mods) >>,
          filter_resonance |-> << extract_t2_mods(mods) >>,
          lfo1_rate |-> << lfo_rate >>,
          env1_attack |-> << Max0(env_attack) >>,
          modulation_matrix |-> << convert_modulation_matrix(mods) >>,
          emu_character |-> TRUE,
          z_plane_mode |-> << determine_zplane_mode(mods) >> ]

\* the default_preset appended when k entries exist
default_preset(k) ==
    [ name |-> S_EMU_Init \o Str(k + 1),
      filter_cutoff |-> << Rat(1, 2) >>,
      filter_resonance |-> << Rat(1, 5) >>,
      lfo1_rate |-> << Rat(1, 2) >>,
      env1_attack |-> << Rat(1, 10) >>,
      modulation_matrix |-> << >>,
      emu_character |-> TRUE,
      z_plane_mode |-> << "Air" >> ]

\* input_entries with the slice one too long: emu_presets[:33]
input_entries_off_by_one(presets) ==
    [ i \in 1..Len(Take(presets, BankSlots + 1)) |-> preset_entry(i - 1, presets[i]) ]

\* for i, preset in enumerate(emu_presets[:32]): preset_entries.append(preset_entry)
input_entries(presets) ==
    [ i \in 1..Len(Take(presets, BankSlots)) |-> preset_entry(i - 1, presets[i]) ]

\* while len(preset_entries) < 32: preset_entries.append(default_preset)
RECURSIVE fill_defaults(_)
fill_defaults(preset_entries) ==
    IF Len(preset_entries) < BankSlots
    THEN fill_defaults(Append(preset_entries, default_preset(Len(preset_entries))))
    ELSE preset_entries

preset_entries_of(presets) == fill_defaults(input_entries(presets))

\* one modulation slot of the record (loop body for j in range(8), j 0-based)
mod_slot(mod_matrix, j) ==
    IF j < Len(mod_matrix)
    THEN pack_f(mod_matrix[j + 1].depth) \o pack_I(mod_matrix[j + 1].source)
    ELSE Zeros(8)

\* mod_slots with the loop one short: range(7)
RECURSIVE mod_slots_short(_, _)
mod_slots_short(mod_matrix, j) ==
    IF j >= ModSlots - 1 THEN << >>
    ELSE mod_slot(mod_matrix, j) \o mod_slots_short(mod_matrix, j + 1)

RECURSIVE mod_slots(_, _)
mod_slots(mod_matrix, j) ==
    IF j >= ModSlots THEN << >> ELSE mod_slot(mod_matrix, j) \o mod_slots(mod_matrix, j + 1)

\* the bytes appended to preset_data for one entry of preset_entries
record_bytes(preset) ==
    ljust(Take(preset.name, 15), 16, 0)
    \o pack_f(Get(preset.filter_cutoff, Rat(1, 2)))
    \o pack_f(Get(preset.filter_resonance, Rat(1, 5)))
    \o pack_f(Get(preset.lfo1_rate, Rat(1, 2)))
    \o pack_f(Get(preset.env1_attack, Rat(1, 10)))
    \o pack_I(IF preset.emu_character THEN 1 ELSE 0)
    \o pack_I(zplane_modes(Get(preset.z_plane_mode, "Air")))
    \o mod_slots(Get(preset.modulation_matrix, << >>), 0)

RECURSIVE concat_records(_, _)
concat_records(entries, k) ==
    IF k > Len(entries) THEN << >>
    ELSE record_bytes(entries[k]) \o concat_records(entries, k + 1)

create_emu_preset_data(presets) ==
    concat_records(preset_entries_of(presets), 1)

(***************************************************************************)
(* zlib (RFC 1950 / RFC 1951).  A zlib stream is a 2-byte header, deflate  *)
(* blocks and the big-endian Adler-32 of the uncompressed data.  The model *)
(* of the compressor emits one stored (BTYPE=00) block; the model of the   *)
(* decompressor parses the header, stored blocks and the trailer, which is *)
(* every stream shape the inputs of this model contain.                    *)
(***************************************************************************)
\* <<sum of bytes, position-weighted sum of bytes>> of data[lo..hi], mod 65521
RECURSIVE AdlerSeg(_, _, _)
AdlerSeg(data, lo, hi) ==
    IF lo > hi THEN << 0, 0 >>
    ELSE IF lo = hi THEN << data[lo], data[lo] >>
    ELSE LET mid == (lo + hi) \div 2
             L == AdlerSeg(data, lo, mid)
             R == AdlerSeg(data, mid + 1, hi)
         IN  << (L[1] + R[1]) % 65521,
                (L[2] + (((hi - mid) * L[1]) % 65521) + R[2]) % 65521 >>

\* the 4 trailer bytes: Adler-32 of data, big-endian
adler32(data) ==
    LET s == AdlerSeg(data, 1, Len(data))
        a == (1 + s[1]) % 65521
        b == (Len(data) + s[2]) % 65521
    IN  << b \div 256, b % 256, a \div 256, a % 256 >>

stored_block(data) ==
    << 1 >> \o pack_H(Len(data)) \o pack_H(65535 - Len(data)) \o data

\* a zlib stream for data whose header is <<cmf, flg>>
zlib_stream(cmf, flg, data) == << cmf, flg >> \o stored_block(data) \o adler32(data)

\* zlib.compress(data, level=9): header 78 DA
zlib_compress(data) == zlib_stream(120, 218, data)

ZErr(msg) == [ok |-> FALSE, out |-> << >>, err |-> msg]

\* inflate the blocks that start at 1-based position p, out = bytes so far
RECURSIVE inflate_blocks(_, _, _)
inflate_blocks(s, p, out) ==
    IF p > Len(s) THEN ZErr("incomplete or truncated stream")
    ELSE
      LET bfinal == s[p] % 2
          btype == (s[p] \div 2) % 4
      IN  IF btype = 3 THEN ZErr("invalid block type")
          ELSE IF btype # 0 THEN ZErr("huffman block")
          ELSE IF p + 4 > Len(s) THEN ZErr("incomplete or truncated stream")
          ELSE
            LET len == s[p + 1] + 256 * s[p + 2]
                nlen == s[p + 3] + 256 * s[p + 4]
            IN  IF len + nlen # 65535 THEN ZErr("invalid stored block lengths")
                ELSE IF p + 4 + len > Len(s) THEN ZErr("incomplete or truncated stream")
                ELSE
                  LET out2 == out \o SubSeq(s, p + 5, p + 4 + len)
                      q == p + 5 + len
                  IN  IF bfinal = 0 THEN inflate_blocks(s, q, out2)
                      ELSE IF q + 3 > Len(s) THEN ZErr("incomplete or truncated stream")
                      ELSE IF SubSeq(s, q, q + 3) # adler32(out2)
                           THEN ZErr("incorrect data check")
                      ELSE [ok |-> TRUE, out |-> out2, err |-> ""]

\* zlib.decompress(s): ok with the data, or the zlib.error raised
zlib_decompress(s) ==
    IF Len(s) < 2 THEN ZErr("incomplete or truncated stream")
    ELSE IF (s[1] * 256 + s[2]) % 31 # 0 THEN ZErr("incorrect header check")
    ELSE IF s[1] % 16 # 8 THEN ZErr("unknown compression method")
    ELSE IF s[1] \div 16 > 7 THEN ZErr("invalid window size")
    ELSE IF (s[2] \div 32) % 2 = 1 THEN ZErr("need dictionary")
    ELSE inflate_blocks(s, 3, << >>)

(***************************************************************************)
(* emu_to_zenology.py: the container.                                      *)
(***************************************************************************)
S_SVZa == <<83, 86, 90, 97>>
S_RC001 == <<82, 67, 48, 48, 49>>
S_EXTaZCOR == <<69, 88, 84, 97, 90, 67, 79, 82, 32>>   \* "EXTaZCOR "
ZlibMarker == <<120, 156>>                             \* b'\x78\x9c'

create_zenology_header ==
    S_SVZa \o pack_H(1) \o S_RC001 \o <<1, 0, 0, 0>> \o S_EXTaZCOR \o <<0, 0, 0>>

\* bytearray slice assignment b[lo:hi] = v (slice bounds clamp to len(b))
SliceAssign(b, lo, hi, v) ==
    LET l == Min(lo, Len(b))
        h == IF Min(hi, Len(b)) < l THEN l ELSE Min(hi, Len(b))
    IN  Take(b, l) \o v \o Drop(b, h)

\* the bytes create_zenology_bank writes for preset_data compressed to compressed_data
complete_file_of(compressed_data) ==
    LET header == create_zenology_header
        total_size == Len(header) + Len(compressed_data) + 64
        compressed_size == Len(compressed_data)
        header2 == SliceAssign(header, 16, 20, pack_I(total_size))
        header3 == SliceAssign(header2, 32, 36, pack_I(compressed_size))
        header4 == header3 \o ZlibMarker
    IN  header4 \o compressed_data

(***************************************************************************)
(* svza_extractor.py: the recovery passes.                                 *)
(***************************************************************************)
\* one iteration of `for b in data`: st holds the open run `current` and the
\* `strings` kept so far
scan_byte(st, b, minlen, maxlen) ==
    IF 32 <= b /\ b <= 126
    THEN [st EXCEPT !.current = Append(@, b)]
    ELSE [current |-> << >>,
          strings |-> IF minlen <= Len(st.current) /\ Len(st.current) <= maxlen
                      THEN Append(st.strings, st.current) ELSE st.strings]

\* the iterations for data[lo..hi] in stream order, from the loop state st.
\* The range is halved to keep the evaluation shallow; the open run is never
\* longer than the bytes read, and testing that makes the evaluation finish
\* the first half before it starts the second.
RECURSIVE scan_strings(_, _, _, _, _, _)
scan_strings(data, lo, hi, st, minlen, maxlen) ==
    IF lo > hi THEN st
    ELSE IF lo = hi THEN scan_byte(st, data[lo], minlen, maxlen)
    ELSE LET mid == (lo + hi) \div 2
             left == scan_strings(data, lo, mid, st, minlen, maxlen)
         IN  IF Len(left.current) <= mid
             THEN scan_strings(data, mid + 1, hi, left, minlen, maxlen)
             ELSE left

\* find_ascii_strings with maxlen one short
find_ascii_strings_short_max(data) ==
    LET st == scan_strings(data, 1, Len(data), [current |-> << >>, strings |-> << >>],
                           6, 199)
    IN  IF 6 <= Len(st.current) /\ Len(st.current) <= 199
        THEN Append(st.strings, st.current) ELSE st.strings

\* the loop, then the test for the last string (minlen=6, maxlen=200)
find_ascii_strings(data) ==
    LET st == scan_strings(data, 1, Len(data), [current |-> << >>, strings |-> << >>],
                           6, 200)
    IN  IF 6 <= Len(st.current) /\ Len(st.current) <= 200
        THEN Append(st.strings, st.current) ELSE st.strings

\* a float32 is its 4 little-endian bytes; exponent and fraction fields
F32Exp(f) == (f[4] % 128) * 2 + (f[3] \div 128)
F32Frac(f) == (f[3] % 128) * 65536 + f[2] * 256 + f[1]

\* |f| as an ordered pair; IEEE magnitudes order as <<exponent, fraction>>
F32MagLe(f, e, fr) == F32Exp(f) < e \/ (F32Exp(f) = e /\ F32Frac(f) <= fr)
F32MagGe(f, e, fr) == F32Exp(f) > e \/ (F32Exp(f) = e /\ F32Frac(f) >= fr)

\* np.isfinite(f)
isfinite(f) == F32Exp(f) # 255

\* (np.abs(floats) <= 10.0) & np.isfinite(floats);  10.0 = 0x41200000
valid_mask(f) == F32MagLe(f, 130, 2097152) /\ isfinite(f)

\* np.frombuffer(aligned_data, dtype='<f4'); it raises ValueError unless the
\* buffer size is a multiple of the element size
frombuffer_raises(b) == Len(b) % 4 # 0

frombuffer(b) == [k \in 1..(Len(b) \div 4) |-> SubSeq(b, 4 * k - 3, 4 * k)]

check_zplane_patterns(floats) ==
    LET \* 0.001 = 0x3A83126F, 2.0 = 0x40000000 in float32
        in_zplane_range ==
            Cardinality({k \in 1..Len(floats) :
                            /\ F32MagGe(floats[k], 117, 201327)
                            /\ F32MagLe(floats[k], 128, 0)
                            /\ isfinite(floats[k])})
    IN  IF Len(floats) % 5 = 0 THEN TRUE
        ELSE IF Len(floats) % 30 = 0 THEN TRUE
        ELSE 10 * in_zplane_range > 8 * Len(floats)

Offsets == << 0, 4, 8, 16 >>

\* aligned_data without the cut to a multiple of 4 bytes
aligned_data_uncut(data, offset) == Drop(data, offset)

\* aligned_data of the loop body: data[offset:] cut to a multiple of 4 bytes
aligned_data_of(data, offset) ==
    LET suffix == Drop(data, offset)
    IN  IF Len(suffix) % 4 # 0
        THEN Take(suffix, Len(suffix) - (Len(suffix) % 4))
        ELSE suffix

\* the two `continue` tests of the loop body
offset_skipped(data, offset) ==
    offset >= Len(data) \/ Len(aligned_data_of(data, offset)) < 16

\* the candidate the loop body writes for this offset: a set of at most one
coefficient_candidate(data, offset) ==
    LET floats == frombuffer(aligned_data_of(data, offset))
        valid_floats == SelectSeq(floats, valid_mask)
    IN  IF Len(valid_floats) > 100
        THEN { [offset |-> offset, coeffs |-> valid_floats,
                zplane |-> check_zplane_patterns(valid_floats)] }
        ELSE { }

\* for offset in [0, 4, 8, 16], from the k-th offset on: the candidates
\* written, and whether an exception left the loop
RECURSIVE coefficient_loop(_, _, _)
coefficient_loop(data, k, found) ==
    IF k > Len(Offsets) THEN [raised |-> FALSE, found |-> found]
    ELSE IF offset_skipped(data, Offsets[k]) THEN coefficient_loop(data, k + 1, found)
    ELSE IF frombuffer_raises(aligned_data_of(data, Offsets[k]))
         THEN [raised |-> TRUE, found |-> found]
    ELSE coefficient_loop(data, k + 1, found \cup coefficient_candidate(data, Offsets[k]))

emu_markers ==
    << <<69, 77, 85>>,                          \* EMU
       <<65, 117, 100, 105, 116, 121>>,         \* Audity
       <<65, 85, 68, 73, 84, 89>>,              \* AUDITY
       <<90, 45, 80, 108, 97, 110, 101>>,       \* Z-Plane
       <<90, 80, 76, 65, 78, 69>>,              \* ZPLANE
       <<80, 114, 111, 116, 101, 117, 115>>,    \* Proteus
       <<80, 82, 79, 84, 69, 85, 83>>,          \* PROTEUS
       <<77, 111, 114, 112, 104, 101, 117, 115>>, \* Morpheus
       <<77, 79, 82, 80, 72, 69, 85, 83>>,      \* MORPHEUS
       <<86, 105, 110, 116, 97, 103, 101>>,     \* Vintage
       <<86, 73, 78, 84, 65, 71, 69>>,          \* VINTAGE
       <<75, 101, 121, 115>>,                   \* Keys
       <<75, 69, 89, 83>> >>                    \* KEYS

\* found_markers of check_emu_signatures: <<marker, offset>> in table order
check_emu_signatures(data) ==
    LET hits == SelectSeq(emu_markers, LAMBDA marker : Contains(data, marker))
    IN  [k \in 1..Len(hits) |-> << hits[k], Find(data, hits[k]) >>]

(***************************************************************************)
(* convert_sr.py: Python floats.  A float is an IEEE-754 binary64 value,   *)
(* kept exactly as [s, m, e] for (-1)^s * m * 2^e with m a 53-bit natural  *)
(* number (or m = 0 for zero).  Natural numbers of any size are sequences  *)
(* of 15-bit limbs, least significant first, without leading zero limbs.   *)
(* +, -, * and / round to nearest, ties to even, as the hardware does.     *)
(* The values of this model stay far from the overflow and underflow       *)
(* thresholds, and the sign of zero is not kept.                           *)
(***************************************************************************)
Limb == Pow2(15)

RECURSIVE BNorm(_)
BNorm(a) == IF a # << >> /\ a[Len(a)] = 0 THEN BNorm(SubSeq(a, 1, Len(a) - 1)) ELSE a

BLimb(a, i) == IF i <= Len(a) THEN a[i] ELSE 0

RECURSIVE BFromInt(_)
BFromInt(n) == IF n = 0 THEN << >> ELSE << n % Limb >> \o BFromInt(n \div Limb)

\* the limbs from the i-th on of a + b + c
RECURSIVE BAddC(_, _, _, _)
BAddC(a, b, i, c) ==
    IF i > Len(a) /\ i > Len(b) THEN (IF c = 0 THEN << >> ELSE << c >>)
    ELSE LET t == BLimb(a, i) + BLimb(b, i) + c
         IN  << t % Limb >> \o BAddC(a, b, i + 1, t \div Limb)

BAdd(a, b) == BAddC(a, b, 1, 0)

\* the limbs from the i-th on of a - b - c, for a >= b
RECURSIVE BSubC(_, _, _, _)
BSubC(a, b, i, c) ==
    IF i > Len(a) THEN << >>
    ELSE LET t == BLimb(a, i) - BLimb(b, i) - c
         IN  << (t + Limb) % Limb >> \o BSubC(a, b, i + 1, IF t < 0 THEN 1 ELSE 0)

BSub(a, b) == BNorm(BSubC(a, b, 1, 0))

RECURSIVE BCmpAt(_, _, _)
BCmpAt(a, b, i) ==
    IF i = 0 THEN 0
    ELSE IF a[i] < b[i] THEN -1
    ELSE IF a[i] > b[i] THEN 1
    ELSE BCmpAt(a, b, i - 1)

\* -1, 0 or 1 as a < b, a = b or a > b
BCmp(a, b) ==
    IF Len(a) # Len(b) THEN (IF Len(a) < Len(b) THEN -1 ELSE 1)
    ELSE BCmpAt(a, b, Len(a))

RECURSIVE BMulSmallC(_, _, _, _)
BMulSmallC(a, k, i, c) ==
    IF i > Len(a) THEN (IF c = 0 THEN << >> ELSE << c >>)
    ELSE LET t == a[i] * k + c
         IN  << t % Limb >> \o BMulSmallC(a, k, i + 1, t \div Limb)

\* a * k for 0 <= k <= Limb
BMulSmall(a, k) == IF k = 0 THEN << >> ELSE BMulSmallC(a, k, 1, 0)

RECURSIVE BMul(_, _)
BMul(a, b) ==
    IF a = << >> \/ b = << >> THEN << >>
    ELSE LET rest == BMul(a, Tail(b))
         IN  BAdd(BMulSmall(a, b[1]), IF rest = << >> THEN << >> ELSE << 0 >> \o rest)

\* quotient and remainder of (r * Limb^i + a[1..i]) by d, for r < d < 2^16
RECURSIVE BDivSmallAt(_, _, _, _)
BDivSmallAt(a, d, i, r) ==
    IF i = 0 THEN [q |-> << >>, r |-> r]
    ELSE LET t == r * Limb + a[i]
             rest == BDivSmallAt(a, d, i - 1, t % d)
         IN  [q |-> Append(rest.q, t \div d), r |-> rest.r]

BDivSmall(a, d) ==
    LET qr == BDivSmallAt(a, d, Len(a), 0) IN [q |-> BNorm(qr.q), r |-> qr.r]

RECURSIVE BitLenSmall(_)
BitLenSmall(x) == IF x = 0 THEN 0 ELSE 1 + BitLenSmall(x \div 2)

BBitLen(a) == IF a = << >> THEN 0 ELSE 15 * (Len(a) - 1) + BitLenSmall(a[Len(a)])

\* a * 2^k
BShl(a, k) == IF a = << >> THEN << >> ELSE Zeros(k \div 15) \o BMulSmall(a, Pow2(k % 15))

\* a \div 2^k
BShr(a, k) == BDivSmall(Drop(a, k \div 15), Pow2(k % 15)).q

BOdd(a) == a # << >> /\ a[1] % 2 = 1

FZero == [s |-> 0, m |-> << >>, e |-> 0]

\* m * 2^e with m brought to 53 bits, for m of at most 54 bits that loses no
\* bit on the way
FNormal(s, m, e) ==
    IF m = << >> THEN FZero
    ELSE IF BBitLen(m) > 53 THEN [s |-> s, m |-> BShr(m, 1), e |-> e + 1]
    ELSE [s |-> s, m |-> BShl(m, 53 - BBitLen(m)), e |-> e - (53 - BBitLen(m))]

\* the float nearest to (-1)^s * (n + f) * 2^e, ties to even, where 0 <= f < 1
\* and sticky tells f > 0
RoundNearest(s, n, e, sticky) ==
    IF BBitLen(n) <= 53 THEN FNormal(s, n, e)
    ELSE LET sh == BBitLen(n) - 53
             q == BShr(n, sh)
             c == BCmp(BSub(n, BShl(q, sh)), BShl(<< 1 >>, sh - 1))
             up == c > 0 \/ (c = 0 /\ (sticky \/ BOdd(q)))
         IN  FNormal(s, IF up THEN BAdd(q, << 1 >>) ELSE q, e + sh)

\* the floats next to (-1)^s * (n + f) * 2^e on either side, for n of at least
\* 53 bits: one float when the value is a float, else the two around it
RoundFaithful(s, n, e, sticky) ==
    LET sh == BBitLen(n) - 53
        q == BShr(n, sh)
    IN  IF ~sticky /\ BShl(q, sh) = n THEN { FNormal(s, q, e + sh) }
        ELSE { FNormal(s, q, e + sh), FNormal(s, BAdd(q, << 1 >>), e + sh) }

\* -1, 0 or 1: the sign of x
FSign(x) == IF x.m = << >> THEN 0 ELSE IF x.s = 1 THEN -1 ELSE 1

\* -1, 0 or 1 as x < y, x = y or x > y
FCmp(x, y) ==
    IF FSign(x) # FSign(y) THEN (IF FSign(x) < FSign(y) THEN -1 ELSE 1)
    ELSE IF FSign(x) = 0 THEN 0
    ELSE IF x.e # y.e THEN (IF x.e < y.e THEN 0 - FSign(x) ELSE FSign(x))
    ELSE FSign(x) * BCmp(x.m, y.m)

FLt(x, y) == FCmp(x, y) < 0
FLe(x, y) == FCmp(x, y) <= 0

FNeg(x) == IF x.m = << >> THEN x ELSE [x EXCEPT !.s = 1 - x.s]

\* x + y
FAdd(x, y) ==
    IF x.m = << >> THEN y
    ELSE IF y.m = << >> THEN x
    ELSE LET e == Min(x.e, y.e)
             a == BShl(x.m, x.e - e)
             b == BShl(y.m, y.e - e)
         IN  IF x.s = y.s THEN RoundNearest(x.s, BAdd(a, b), e, FALSE)
             ELSE IF BCmp(a, b) >= 0 THEN RoundNearest(x.s, BSub(a, b), e, FALSE)
             ELSE RoundNearest(y.s, BSub(b, a), e, FALSE)

\* x - y
FSub(x, y) == FAdd(x, FNeg(y))

\* x * y
FMul(x, y) ==
    IF x.m = << >> \/ y.m = << >> THEN FZero
    ELSE RoundNearest((x.s + y.s) % 2, BMul(x.m, y.m), x.e + y.e, FALSE)

\* n / d for integers n and 0 < d < 2^16: the true division of two ints, and
\* the float that json.load reads from the decimal n/d when d is a power of 10
FDivInt(n, d) ==
    LET qr == BDivSmall(BShl(BFromInt(Abs(n)), 75), d)
    IN  RoundNearest(IF n < 0 THEN 1 ELSE 0, qr.q, -75, qr.r # 0)

FromInt(n) == FDivInt(n, 1)

\* c^k for k = 2 or 4
BPowK(c, k) == IF k = 2 THEN BMul(c, c) ELSE BMul(BMul(c, c), BMul(c, c))

\* y with bit `bit` set when the k-th power stays at most n, else y
IRootBit(n, k, y, bit) ==
    LET c == BAdd(y, BShl(<< 1 >>, bit))
    IN  IF BCmp(BPowK(c, k), n) <= 0 THEN c ELSE y

\* the largest z with z^k <= n among y + b, for b made of the bits hi down to
\* lo: the bits are tried from the top, the upper half of them first
RECURSIVE IRootBits(_, _, _, _, _)
IRootBits(n, k, y, hi, lo) ==
    IF hi = lo THEN IRootBit(n, k, y, hi)
    ELSE LET mid == (hi + lo + 1) \div 2
             upper == IRootBits(n, k, y, hi, mid)
         IN  IF BBitLen(upper) <= 53
             THEN IRootBits(n, k, upper, mid - 1, lo)
             ELSE upper

\* the floats next to the k-th root of x > 0 (k = 2 or 4): x = n * 2^(e - t)
\* with n = m * 2^t of more than 52k and at most 53k bits and k dividing e - t
FRoot(x, k) ==
    LET t == CHOOSE u \in (52 * k - 52)..(53 * k - 53) : (x.e - u) % k = 0
        n == BShl(x.m, t)
        y == IRootBits(n, k, << >>, 52, 0)
    IN  RoundFaithful(0, y, (x.e - t) \div k, BPowK(y, k) # n)

(***************************************************************************)
(* convert_sr.py: the pole transform.                                      *)
(***************************************************************************)
\* math.pi = 0x1.921fb54442d18p+1
PI == [s |-> 0, m |-> << 11544, 10376, 2029, 201 >>, e |-> -51]

\* 2 * math.pi
TWO_PI == FMul(FromInt(2), PI)

\* r_src ** fs_ratio.  A negative base with a fractional exponent gives a
\* complex number.  The C library's pow is exact when the result is a float and
\* is otherwise within one unit in the last place, so either float next to the
\* real power is a result some build gives.  The exponents are the ratios of
\* this model: 1/4, 1/2, 1 and 2.
float_pow(x, y) ==
    IF y = FromInt(1) THEN [complex |-> FALSE, values |-> { x }]
    ELSE IF y = FromInt(2)
    THEN [complex |-> FALSE,
          values |-> IF x.m = << >> THEN { FZero }
                     ELSE RoundFaithful(0, BMul(x.m, x.m), 2 * x.e, FALSE)]
    ELSE IF x.m = << >> THEN [complex |-> FALSE, values |-> { FZero }]
    ELSE IF x.s = 1 THEN [complex |-> TRUE, values |-> { }]
    ELSE [complex |-> FALSE, values |-> FRoot(x, IF y = FDivInt(1, 2) THEN 2 ELSE 4)]

\* min(a, b) of two floats: b when b < a, else a
float_min(a, b) == IF FLt(b, a) THEN b ELSE a

R_MAX_one == FromInt(1)

\* the literal 0.9999
R_MAX == FDivInt(9999, 10000)

clamp_radius_max(r_dst) == IF FLt(r_dst, R_MAX) THEN R_MAX ELSE r_dst

\* r_dst = min(r_dst, 0.9999)
clamp_radius(r_dst) == float_min(r_dst, R_MAX)

(***************************************************************************)
(* Inputs.  The encoder's input is a preset list emu_presets; the decoder  *)
(* reads either the bank the encoder wrote or a third-party container.     *)
(***************************************************************************)
MaxLfo == 2             \* most LFO-sourced modulations in an input preset
MaxEnv == 3             \* most ENV-sourced modulations
MaxKey == 5             \* most KEY-sourced modulations
MaxOther == 2           \* most modulations from other sources
MaxPayloadLen == 24     \* longest third-party payload

Cyc(s, j) == s[(j % Len(s)) + 1]

LfoSrcs == << <<76, 70, 79, 49>>, <<76, 70, 79, 50>>, <<76, 70, 79, 51>> >>
EnvSrcs == << <<69, 78, 86, 49>>, <<69, 78, 86, 50>>, <<69, 78, 86, 51>>,
              <<69, 78, 86, 52>> >>
KeySrcs == << <<75, 69, 89>>, <<75, 69, 89, 50>> >>
OtherSrcs == << <<86, 69, 76>>, <<87, 72, 69, 69, 76>>, << >>,
                <<77, 73, 68, 73, 95, 67, 67, 55>> >>
Dsts == << S_filter_cutoff, S_filter_t2, <<97, 109, 112, 46, 108, 101, 118, 101, 108>>,
           << >> >>
Depths == << << Rat(3, 10) >>, << Rat(-1, 2) >>, << >>, << Rat(1, 1) >>,
             << Rat(7, 10) >> >>

Reverse(s) == [i \in 1..Len(s) |-> s[Len(s) + 1 - i]]

\* a modulation list with l LFO, e ENV, k KEY and o other sources
ModsGen(l, e, k, o, rev) ==
    LET srcs == [j \in 1..l |-> Cyc(LfoSrcs, j)] \o [j \in 1..e |-> Cyc(EnvSrcs, j)]
                \o [j \in 1..k |-> Cyc(KeySrcs, j + 1)] \o [j \in 1..o |-> Cyc(OtherSrcs, j + l)]
        mods == [j \in 1..Len(srcs) |->
                    [src |-> srcs[j], dst |-> Cyc(Dsts, j + e), depth |-> Cyc(Depths, j + k)]]
    IN  IF rev THEN Reverse(mods) ELSE mods

Names == << << >>,
            << <<76, 101, 97, 100>> >>,                                   \* "Lead"
            << <<65, 32, 86, 101, 114, 121, 32, 76, 111, 110, 103, 32, 80,
                 114, 101, 115, 101, 116, 32, 78, 97, 109, 101>> >>,      \* 23 chars
            << <<80, 97, 100, 0, 0>> >>,                                  \* "Pad\0\0"
            << << >> >> >>                                                \* ""
Rates == << << >>, << Rat(2, 1) >>, << Rat(1, 4) >>, << Rat(13, 10) >> >>
Attacks == << << >>, << Rat(1, 4) >>, << Rat(-1, 2) >>, << Rat(0, 1) >>, << Rat(1, 10) >> >>

NumTemplates == (MaxLfo + 1) * (MaxEnv + 1) * (MaxKey + 1) * (MaxOther + 1) * 2

\* the t-th input preset shape
Template(t) ==
    LET l == t % (MaxLfo + 1)
        t1 == t \div (MaxLfo + 1)
        e == t1 % (MaxEnv + 1)
        t2 == t1 \div (MaxEnv + 1)
        k == t2 % (MaxKey + 1)
        t3 == t2 \div (MaxKey + 1)
        o == t3 % (MaxOther + 1)
        rev == (t3 \div (MaxOther + 1)) % 2 = 1
    IN  [ name |-> Cyc(Names, t), rateHz |-> Cyc(Rates, t + l), A |-> Cyc(Attacks, t + e),
          mods |-> ModsGen(l, e, k, o, rev) ]

Seeds == { s \in 0..(NumTemplates - 1) : s % 32 = 0 }

PresetList(n, seed) == [i \in 1..n |-> Template((seed + i - 1) % NumTemplates)]

PayloadKinds == { "zeros", "text", "sig" }

Payload(kind, len) ==
    IF kind = "zeros" THEN Zeros(len)
    ELSE IF kind = "text" THEN [i \in 1..len |-> 65 + (i % 26)]
    ELSE Take(<<69, 77, 85>> \o Zeros(len), len)

MaxExtraValid == 5      \* most valid float32 values beyond the 100 of the test
MaxInvalid == 2         \* most float32 values that fail the range test
MaxOverlong == 1        \* longest printable run is maxlen + MaxOverlong bytes

\* float32 values that pass (np.abs(floats) <= 10.0) & np.isfinite(floats):
\* 0.0, 1.0, -10.0, 10.0, 0.5, the least denormal, -1.5, 2.0
ValidFloats == << <<0, 0, 0, 0>>, <<0, 0, 128, 63>>, <<0, 0, 32, 193>>, <<0, 0, 32, 65>>,
                  <<0, 0, 0, 63>>, <<1, 0, 0, 0>>, <<0, 0, 192, 191>>, <<0, 0, 0, 64>> >>

\* float32 values that fail it: inf, nan, 11.0, the float after 10.0, -inf, -1e30
InvalidFloats == << <<0, 0, 128, 127>>, <<0, 0, 192, 127>>, <<0, 0, 48, 65>>,
                    <<1, 0, 32, 65>>, <<0, 0, 128, 255>>, <<202, 242, 73, 241>> >>

\* the bytes of a sequence of float32 values
FloatBytes(floats) == [i \in 1..(4 * Len(floats)) |-> floats[((i - 1) \div 4) + 1][((i - 1) % 4) + 1]]

\* a payload of nvalid values that pass the test, ninvalid that fail it (put
\* after the fourth value) and a tail of 0..3 odd bytes
FloatPayload(nvalid, ninvalid, tail) ==
    LET valid == [j \in 1..nvalid |-> Cyc(ValidFloats, j)]
        invalid == [j \in 1..ninvalid |-> Cyc(InvalidFloats, j + nvalid)]
    IN  FloatBytes(Take(valid, 4) \o invalid \o Drop(valid, 4)) \o [j \in 1..tail |-> 200 + j]

\* a run of len bytes in 32..126 that starts with 32 and holds 126
PrintableRun(len) == [j \in 1..len |-> 32 + (((j - 1) * 47) % 95)]

RunLens == { 0, 5, 6, 200 } \cup (201..(200 + MaxOverlong))

\* two printable runs around a byte outside 32..126; closed tells whether a
\* byte outside 32..126 follows the second run
RunPayload(a, b, closed) ==
    PrintableRun(a) \o << Cyc(<<31, 127, 0, 255, 10>>, a + b) >> \o PrintableRun(b)
    \o (IF closed THEN << Cyc(<<127, 31, 0>>, a) >> ELSE << >>)

Corruptions == { "none", "junk", "nomagic", "nomarker", "truncated", "cut",
                 "badcheck", "earlymarker", "short" }

\* a container some other tool wrote: header, then the zlib stream of payload
ThirdParty(kind, len, corr) ==
    LET stream == zlib_stream(120, 156, Payload(kind, len))
        good == create_zenology_header \o stream
    IN  CASE corr = "none" -> good
          [] corr = "junk" -> good \o <<1, 2, 3>>
          [] corr = "nomagic" -> <<88>> \o Tail(good)
          [] corr = "nomarker" -> create_zenology_header \o Zeros(len)
          [] corr = "truncated" -> Take(good, Len(good) - 2)
          [] corr = "cut" -> Take(good, Len(create_zenology_header) + 2 + (len % 7))
          [] corr = "badcheck" ->
                Take(good, Len(good) - 1) \o << (good[Len(good)] + 1) % 256 >>
          [] corr = "earlymarker" -> create_zenology_header \o ZlibMarker \o <<0>> \o stream
          [] OTHER -> Take(good, len % 4)

\* an intact container around any payload
ThirdPartyOf(payload) == create_zenology_header \o zlib_stream(120, 156, payload)

\* The input of convert_shapes_file is a shapes file [sampleRateRef, shapes],
\* each shape a record with a list `poles` of [r, theta].
Pole(r, theta) == [r |-> r, theta |-> theta]

\* 0.9999999999999999, the float below 1.0
BelowOne == FSub(FromInt(1), [s |-> 0, m |-> << 0, 0, 0, 128 >>, e |-> -105])

\* 2.0 ** 60
Huge == [s |-> 0, m |-> << 0, 0, 0, 128 >>, e |-> 8]

PoleTable ==
    << Pole(FDivInt(1, 2), FZero),
       Pole(FDivInt(9, 10), FromInt(1)),
       Pole(FDivInt(9999, 10000), PI),
       Pole(FDivInt(19999, 20000), FNeg(PI)),
       Pole(BelowOne, FDivInt(35, 10)),
       Pole(FZero, FDivInt(-35, 10)),
       Pole(FDivInt(81, 100), FromInt(7)),
       Pole(FDivInt(1, 4), FromInt(-100)),
       Pole(FDivInt(1, 2), Huge),
       Pole(FDivInt(1, 2), FNeg(Huge)),
       Pole(FromInt(1), FDivInt(1, 2)),
       Pole(FDivInt(3, 2), FromInt(-1)),
       Pole(FDivInt(-1, 2), FromInt(2)),
       Pole(FDivInt(24999, 25000), FDivInt(1, 4)) >>

\* the shapes of the k-th input file: one shape with the k-th pole of the
\* table, then a file of two shapes, a file with a shape without poles and a
\* file without shapes
ShapeLists ==
    [k \in 1..Len(PoleTable) |-> << [poles |-> << PoleTable[k] >>] >>]
    \o << << [poles |-> << PoleTable[1], PoleTable[2] >>], [poles |-> << PoleTable[3] >>] >>,
          << [poles |-> << >>] >>,
          << >> >>

ShapesFile(k) == [sampleRateRef |-> 48000, shapes |-> ShapeLists[k]]

\* main() converts input_a into output_a; a caller may also name one file twice
ShapePaths == { "audity_shapes_A_48k.json", "audity_shapes_A_44k.json" }

\* destination rates whose ratio to 48000 is 1/4, 1/2, 1 or 2
DstRates == { 12000, 24000, 48000, 96000 }

(***************************************************************************)
(* The state machine: one run of the encoder and one run of the decoder.   *)
(* The decoder is modelled statement by statement, because what it has     *)
(* written when it raises is part of its contract.                         *)
(***************************************************************************)
VARIABLES
    emu_data_file,      \* the input JSON file: << >> when none is found, else
                        \* << the "presets" list >>
    tp_file,            \* a third-party container on disk: << >> or << bytes >>
    enc_pc,             \* "ready" | "done": create_zenology_bank
    preset_data,        \* the uncompressed payload
    compressed_data,    \* zlib.compress(preset_data, level=9)
    out_file,           \* the bytes written to output_file
    dec_pc,             \* the decoder's position in extract_svza
    dec_src,            \* which file the decoder read: "bank" | "third"
    dec,                \* the decoder's locals and outcome
    fs,                 \* what the decoder created under output_dir
    sr_pc,              \* the position in convert_shapes_file, "idle" when not called
    sr,                 \* the arguments and locals of convert_shapes_file
    shape_files         \* the shapes files on disk, by path: << >> or << content >>

vars == << emu_data_file, tp_file, enc_pc, preset_data, compressed_data, out_file,
           dec_pc, dec_src, dec, fs, sr_pc, sr, shape_files >>

bank_vars == << emu_data_file, tp_file, enc_pc, preset_data, compressed_data, out_file,
                dec_pc, dec_src, dec, fs >>

sr_vars == << sr_pc, sr, shape_files >>

enc_vars == << emu_data_file, enc_pc, preset_data, compressed_data, out_file >>

\* emu_presets = emu_data.get("presets", [])
emu_presets == emu_data_file[1]

NoDec ==
    [ data |-> << >>,           \* the bytes read from filepath
      zlib_start |-> -1,        \* offset of the first marker
      decompressed |-> << >>,   \* << bytes >> once zlib.decompress returned
      strings |-> << >>,        \* find_ascii_strings(decompressed)
      candidates |-> { },       \* coefficient arrays found
      signatures |-> << >>,     \* found_markers
      numpy |-> << >>,          \* << whether `import numpy` succeeded >>
      raised |-> "",            \* the exception that left extract_svza
      returned |-> << >> ]      \* << bytes >> once extract_svza returned

NoFs ==
    [ out_dir |-> FALSE,        \* output_path exists
      raw_file |-> << >>,       \* <basename>_decompressed.bin
      strings_file |-> << >>,   \* <basename>_strings.txt
      coeff_files |-> { } ]     \* offsets of <basename>_coefficients_offset<N>.csv

NoSr ==
    [ input_path |-> "", output_path |-> "",
      fs_src |-> 0, fs_dst |-> 0,
      loaded |-> << >>,         \* << what json.load returned >>
      data |-> << >>,           \* << the dictionary `data` >>
      fs_ratio |-> FZero,
      i |-> 0, j |-> 0,         \* the shape and the pole the loops are at
      new_poles |-> << >>,
      r_src |-> FZero, theta_src |-> FZero,
      r_pow |-> FZero,          \* r_src ** fs_ratio, as line 40 left it
      r_complex |-> FALSE,      \* r_src ** fs_ratio is a complex number
      r_dst |-> FZero,
      theta_dst |-> FZero,      \* theta_src * fs_ratio, as line 43 left it
      theta |-> FZero,          \* the variable of wrap_angle
      raised |-> "" ]           \* the exception that left convert_shapes_file

Init ==
    /\ \/ \E n \in 0..MaxPresets, seed \in Seeds :
             /\ seed % 128 = 0 \/ n = MaxPresets
             /\ emu_data_file = << PresetList(n, seed) >>
             /\ tp_file = << >>
       \/ \E kind \in PayloadKinds, len \in 0..MaxPayloadLen, corr \in Corruptions :
             /\ emu_data_file = << >>
             /\ tp_file = << ThirdParty(kind, len, corr) >>
       \/ \E nvalid \in 98..(100 + MaxExtraValid), ninvalid \in 0..MaxInvalid, tail \in 0..3 :
             /\ emu_data_file = << >>
             /\ tp_file = << ThirdPartyOf(FloatPayload(nvalid, ninvalid, tail)) >>
       \/ \E a \in RunLens, b \in RunLens, closed \in BOOLEAN :
             /\ emu_data_file = << >>
             /\ tp_file = << ThirdPartyOf(RunPayload(a, b, closed)) >>
    /\ enc_pc = "ready"
    /\ preset_data = << >>
    /\ compressed_data = << >>
    /\ out_file = << >>
    /\ dec_pc = "ready"
    /\ dec_src = "none"
    /\ dec = NoDec
    /\ fs = NoFs
    /\ sr_pc = "idle"
    /\ sr = NoSr
    /\ shape_files = [p \in ShapePaths |-> << >>]

\* main() of emu_to_zenology.py: create_zenology_bank on the data file found
CreateZenologyBank ==
    /\ enc_pc = "ready"
    /\ emu_data_file # << >>
    /\ preset_data' = create_emu_preset_data(emu_presets)
    /\ compressed_data' = zlib_compress(preset_data')
    /\ out_file' = complete_file_of(compressed_data')
    /\ enc_pc' = "done"
    /\ UNCHANGED << sr_vars, emu_data_file, tp_file, dec_pc, dec_src, dec, fs >>

\* extract_svza: read filepath and check the magic
ReadAndCheckMagic(src, bytes) ==
    /\ dec_pc = "ready"
    /\ dec_src' = src
    /\ IF Take(bytes, 4) # S_SVZa
       THEN /\ dec' = [dec EXCEPT !.data = bytes, !.raised = "Not a valid SVZa file"]
            /\ dec_pc' = "raised"
       ELSE /\ dec' = [dec EXCEPT !.data = bytes]
            /\ dec_pc' = "scan"
    /\ UNCHANGED << sr_vars, enc_vars, tp_file, fs >>

\* extract_svza(filepath) on the bank the encoder wrote
ExtractBank ==
    /\ enc_pc = "done"
    /\ ReadAndCheckMagic("bank", out_file)

\* extract_svza(filepath) on a third-party container
ExtractThirdParty ==
    /\ tp_file # << >>
    /\ ReadAndCheckMagic("third", tp_file[1])

\* the loop that looks for b'\x78\x9c'
FindMarker ==
    /\ dec_pc = "scan"
    /\ LET zlib_start == Find(dec.data, ZlibMarker)
       IN  IF zlib_start = -1
           THEN /\ dec' = [dec EXCEPT !.raised = "No zlib compressed data found"]
                /\ dec_pc' = "raised"
           ELSE /\ dec' = [dec EXCEPT !.zlib_start = zlib_start]
                /\ dec_pc' = "found"
    /\ UNCHANGED << sr_vars, enc_vars, tp_file, dec_src, fs >>

\* Decompress with the output directory created ahead of the try block
Decompress_mkdir_first ==
    /\ dec_pc = "found"
    /\ LET z == zlib_decompress(Drop(dec.data, dec.zlib_start))
       IN  IF ~z.ok
           THEN /\ dec' = [dec EXCEPT !.raised = "Decompression failed"]
                /\ dec_pc' = "raised"
           ELSE /\ dec' = [dec EXCEPT !.decompressed = << z.out >>]
                /\ dec_pc' = "decompressed"
    /\ fs' = [fs EXCEPT !.out_dir = TRUE]
    /\ UNCHANGED << sr_vars, enc_vars, tp_file, dec_src >>

\* decompressed = zlib.decompress(data[zlib_start:])
Decompress ==
    /\ dec_pc = "found"
    /\ LET z == zlib_decompress(Drop(dec.data, dec.zlib_start))
       IN  IF ~z.ok
           THEN /\ dec' = [dec EXCEPT !.raised = "Decompression failed"]
                /\ dec_pc' = "raised"
           ELSE /\ dec' = [dec EXCEPT !.decompressed = << z.out >>]
                /\ dec_pc' = "decompressed"
    /\ UNCHANGED << sr_vars, enc_vars, tp_file, dec_src, fs >>

\* output_path.mkdir(exist_ok=True)
MakeOutputDir ==
    /\ dec_pc = "decompressed"
    /\ fs' = [fs EXCEPT !.out_dir = TRUE]
    /\ dec_pc' = "mkdir"
    /\ UNCHANGED << sr_vars, enc_vars, tp_file, dec_src, dec >>

\* write <basename>_decompressed.bin
SaveRaw ==
    /\ dec_pc = "mkdir"
    /\ fs' = [fs EXCEPT !.raw_file = dec.decompressed]
    /\ dec_pc' = "saved"
    /\ UNCHANGED << sr_vars, enc_vars, tp_file, dec_src, dec >>

\* StringPass with a return from the analysis when no string is found
StringPass_returns_when_empty ==
    /\ dec_pc = "saved"
    /\ LET strings == find_ascii_strings(dec.decompressed[1])
       IN  /\ dec' = [dec EXCEPT !.strings = strings]
           /\ fs' = IF strings # << >>
                    THEN [fs EXCEPT !.strings_file = << strings >>]
                    ELSE fs
           /\ dec_pc' = IF strings = << >> THEN "analyzed" ELSE "strings"
    /\ UNCHANGED << sr_vars, enc_vars, tp_file, dec_src >>

\* analyze_decompressed_data: the string pass
StringPass ==
    /\ dec_pc = "saved"
    /\ LET strings == find_ascii_strings(dec.decompressed[1])
       IN  /\ dec' = [dec EXCEPT !.strings = strings]
           /\ fs' = IF strings # << >>
                    THEN [fs EXCEPT !.strings_file = << strings >>]
                    ELSE fs
    /\ dec_pc' = "strings"
    /\ UNCHANGED << sr_vars, enc_vars, tp_file, dec_src >>

\* analyze_decompressed_data: the coefficient pass; numpy tells whether
\* `import numpy` succeeds (the ImportError is caught and the pass skipped)
CoefficientPass ==
    /\ dec_pc = "strings"
    /\ \E numpy \in BOOLEAN :
         LET r == IF numpy THEN coefficient_loop(dec.decompressed[1], 1, { })
                  ELSE [raised |-> FALSE, found |-> { }]
         IN  /\ dec' = [dec EXCEPT !.candidates = r.found,
                                   !.numpy = << numpy >>,
                                   !.raised = IF r.raised THEN "ValueError" ELSE ""]
             /\ fs' = [fs EXCEPT !.coeff_files = { c.offset : c \in r.found }]
             /\ dec_pc' = IF r.raised THEN "raised" ELSE "coefficients"
    /\ UNCHANGED << sr_vars, enc_vars, tp_file, dec_src >>

\* analyze_decompressed_data: check_emu_signatures
SignaturePass ==
    /\ dec_pc = "coefficients"
    /\ dec' = [dec EXCEPT !.signatures = check_emu_signatures(dec.decompressed[1])]
    /\ dec_pc' = "analyzed"
    /\ UNCHANGED << sr_vars, enc_vars, tp_file, dec_src, fs >>

\* return decompressed
Return ==
    /\ dec_pc = "analyzed"
    /\ dec' = [dec EXCEPT !.returned = dec.decompressed]
    /\ dec_pc' = "done"
    /\ UNCHANGED << sr_vars, enc_vars, tp_file, dec_src, fs >>

Next ==
    \/ CreateZenologyBank
    \/ ExtractBank
    \/ ExtractThirdParty
    \/ FindMarker
    \/ Decompress
    \/ MakeOutputDir
    \/ SaveRaw
    \/ StringPass
    \/ CoefficientPass
    \/ SignaturePass
    \/ Return

Spec == Init /\ [][Next]_vars

(***************************************************************************)
(* convert_sr.py: one call of convert_shapes_file, statement by statement; *)
(* wrap_angle is modelled one loop test at a time, because whether its     *)
(* loops end is part of its contract.                                      *)
(***************************************************************************)
\* the state of the bank tools when none of them runs
BankIdle ==
    /\ emu_data_file = << >>
    /\ tp_file = << >>
    /\ enc_pc = "ready"
    /\ preset_data = << >>
    /\ compressed_data = << >>
    /\ out_file = << >>
    /\ dec_pc = "ready"
    /\ dec_src = "none"
    /\ dec = NoDec
    /\ fs = NoFs

\* convert_shapes_file(input_path, output_path, fs_src, fs_dst) is called
InitSr ==
    /\ BankIdle
    /\ \E k \in 1..Len(ShapeLists), out \in ShapePaths, fs_dst \in DstRates :
          /\ shape_files = [p \in ShapePaths |->
                               IF p = "audity_shapes_A_48k.json" THEN << ShapesFile(k) >>
                               ELSE << >>]
          /\ sr = [NoSr EXCEPT !.input_path = "audity_shapes_A_48k.json",
                               !.output_path = out,
                               !.fs_src = 48000,
                               !.fs_dst = fs_dst]
    /\ sr_pc = "called"

\* lines 57-63: data = json.load(f); fs_ratio = fs_dst / fs_src;
\* data['sampleRateRef'] = fs_dst
LoadShapes ==
    /\ sr_pc = "called"
    /\ shape_files[sr.input_path] # << >>
    /\ sr' = [sr EXCEPT !.loaded = shape_files[sr.input_path],
                        !.data = << [shape_files[sr.input_path][1]
                                        EXCEPT !.sampleRateRef = sr.fs_dst] >>,
                        !.fs_ratio = FDivInt(sr.fs_dst, sr.fs_src),
                        !.i = 1]
    /\ sr_pc' = "shape"
    /\ UNCHANGED << bank_vars, shape_files >>

\* lines 66-67: for shape in data['shapes']: new_poles = []
BeginShape ==
    /\ sr_pc = "shape"
    /\ sr.i <= Len(sr.data[1].shapes)
    /\ sr' = [sr EXCEPT !.new_poles = << >>, !.j = 1]
    /\ sr_pc' = "pole"
    /\ UNCHANGED << bank_vars, shape_files >>

\* lines 68-71 and convert_pole, lines 40-46: the next pole of the shape, its
\* power-law radius, its scaled angle, and the call of wrap_angle
ConvertPole ==
    /\ sr_pc = "pole"
    /\ sr.j <= Len(sr.data[1].shapes[sr.i].poles)
    /\ LET pole == sr.data[1].shapes[sr.i].poles[sr.j]
           power == float_pow(pole.r, sr.fs_ratio)
           theta_dst == FMul(pole.theta, sr.fs_ratio)
       IN  \E r_dst \in IF power.complex THEN { FZero } ELSE power.values :
              sr' = [sr EXCEPT !.r_src = pole.r,
                               !.theta_src = pole.theta,
                               !.r_pow = r_dst,
                               !.r_complex = power.complex,
                               !.r_dst = r_dst,
                               !.theta_dst = theta_dst,
                               !.theta = theta_dst]
    /\ sr_pc' = "wrap_down"
    /\ UNCHANGED << bank_vars, shape_files >>

\* wrap_angle, lines 20-21: while theta > math.pi: theta -= 2 * math.pi
WrapDown ==
    /\ sr_pc = "wrap_down"
    /\ IF FLt(PI, sr.theta)
       THEN /\ sr' = [sr EXCEPT !.theta = FSub(@, TWO_PI)]
            /\ sr_pc' = "wrap_down"
       ELSE /\ sr' = sr
            /\ sr_pc' = "wrap_up"
    /\ UNCHANGED << bank_vars, shape_files >>

\* wrap_angle, lines 22-24: while theta <= -math.pi: theta += 2 * math.pi;
\* return theta
WrapUp ==
    /\ sr_pc = "wrap_up"
    /\ IF FLe(sr.theta, FNeg(PI))
       THEN /\ sr' = [sr EXCEPT !.theta = FAdd(@, TWO_PI)]
            /\ sr_pc' = "wrap_up"
       ELSE /\ sr' = sr
            /\ sr_pc' = "clamp"
    /\ UNCHANGED << bank_vars, shape_files >>

\* convert_pole, lines 49-51, and lines 72-75: r_dst = min(r_dst, 0.9999), which
\* raises TypeError for a complex r_dst; new_poles.append({'r': ..., 'theta': ...})
ClampAndAppend ==
    /\ sr_pc = "clamp"
    /\ IF sr.r_complex
       THEN /\ sr' = [sr EXCEPT !.raised = "TypeError"]
            /\ sr_pc' = "raised"
       ELSE /\ sr' = [sr EXCEPT !.r_dst = clamp_radius(sr.r_dst),
                                !.new_poles = Append(@, Pole(clamp_radius(sr.r_dst), sr.theta)),
                                !.j = @ + 1]
            /\ sr_pc' = "pole"
    /\ UNCHANGED << bank_vars, shape_files >>

\* line 76: shape['poles'] = new_poles, at the end of the loop over the poles
EndShape ==
    /\ sr_pc = "pole"
    /\ sr.j > Len(sr.data[1].shapes[sr.i].poles)
    /\ sr' = [sr EXCEPT !.data[1].shapes[sr.i].poles = sr.new_poles,
                        !.i = @ + 1]
    /\ sr_pc' = "shape"
    /\ UNCHANGED << bank_vars, shape_files >>

\* lines 79-82: json.dump(data, f) into output_path; return data
WriteShapes ==
    /\ sr_pc = "shape"
    /\ sr.i > Len(sr.data[1].shapes)
    /\ shape_files' = [shape_files EXCEPT ![sr.output_path] = sr.data]
    /\ sr_pc' = "returned"
    /\ UNCHANGED << bank_vars, sr >>

NextSr ==
    \/ LoadShapes
    \/ BeginShape
    \/ ConvertPole
    \/ WrapDown
    \/ WrapUp
    \/ ClampAndAppend
    \/ EndShape
    \/ WriteShapes

SpecSr == InitSr /\ [][NextSr]_vars

(***************************************************************************)
(* Reading the payload back: the fields of the k-th record.                *)
(***************************************************************************)
RecordBytes == 16 + 4 * 4 + 4 + 4 + 8 * (4 + 4)

RecordAt(k) == SubSeq(preset_data, RecordBytes * (k - 1) + 1, RecordBytes * k)
NameOf(r) == SubSeq(r, 1, 16)
CutoffOf(r) == SubSeq(r, 17, 20)
ResonanceOf(r) == SubSeq(r, 21, 24)
LfoRateOf(r) == SubSeq(r, 25, 28)
AttackOf(r) == SubSeq(r, 29, 32)
FlagOf(r) == SubSeq(r, 33, 36)
ModeOf(r) == SubSeq(r, 37, 40)
SlotOf(r, j) == SubSeq(r, 41 + 8 * j, 48 + 8 * j)

\* float32 bit patterns of the documented defaults
F_0_5 == << 0, 0, 0, 63 >>          \* 0.5  = 0x3F000000
F_0_2 == << 205, 204, 76, 62 >>     \* 0.2  = 0x3E4CCCCD
F_0_1 == << 205, 204, 204, 61 >>    \* 0.1  = 0x3DCCCCCD

\* the number of input presets that get a record
NumInputs == Min(Len(emu_presets), 32)

\* the record of the k-th default "Init" preset, byte by byte
DefaultRecord(k) ==
    ljust(S_EMU_Init \o Str(k), 16, 0) \o F_0_5 \o F_0_2 \o F_0_5 \o F_0_1
    \o << 1, 0, 0, 0 >> \o << 0, 0, 0, 0 >> \o Zeros(64)

\* the name field expected in record k
ExpectedName(k) ==
    IF k <= NumInputs
    THEN ljust(Take(Get(emu_presets[k].name, S_EMU_Preset \o Str(k)), 15), 16, 0)
    ELSE ljust(S_EMU_Init \o Str(k), 16, 0)

(***************************************************************************)
(* C1: whatever the length n of the input list, the payload holds exactly  *)
(* 32 records; the first min(n, 32) are the records of the input presets   *)
(* in input order, inputs beyond the 32nd are dropped, and the remaining   *)
(* slots hold default records.                                             *)
(***************************************************************************)
C1_ExactlyThirtyTwoRecords ==
    enc_pc = "done" =>
        /\ Len(preset_data) = 32 * RecordBytes
        /\ \A k \in 1..32 :
              IF k <= Len(emu_presets)
              THEN /\ RecordAt(k) = record_bytes(preset_entry(k - 1, emu_presets[k]))
                   /\ NameOf(RecordAt(k)) = ExpectedName(k)
              ELSE RecordAt(k) = DefaultRecord(k)

\* an input list longer than the bank was encoded
C1_Witness ==
    /\ enc_pc = "done"
    /\ Len(emu_presets) = 50
    /\ Len(preset_data) = 32 * RecordBytes
    /\ RecordAt(32) # DefaultRecord(32)

(***************************************************************************)
(* C2 as stated: every preset record occupies exactly 100 bytes of the     *)
(* payload.                                                                *)
(***************************************************************************)
C2_RecordIs100Bytes ==
    enc_pc = "done" => Len(preset_data) = 32 * 100

(***************************************************************************)
(* C2 amended: every preset record occupies exactly 104 bytes of the       *)
(* payload: name 16, four float32 parameters 16, flag 4, mode 4 and 8      *)
(* modulation slots of 8 bytes; record k starts at byte 104 * (k - 1).     *)
(***************************************************************************)
C2_RecordIs104Bytes ==
    enc_pc = "done" =>
        /\ RecordBytes = 104
        /\ Len(preset_data) = 32 * 104
        /\ \A k \in 1..32 :
              /\ NameOf(RecordAt(k)) = ExpectedName(k)
              /\ FlagOf(RecordAt(k)) = << 1, 0, 0, 0 >>
              /\ ModeOf(RecordAt(k)) \in { << 0, 0, 0, 0 >>, << 1, 0, 0, 0 >>, << 2, 0, 0, 0 >> }

\* a bank with both input presets and default padding was encoded
C2_Witness ==
    /\ enc_pc = "done"
    /\ Len(emu_presets) = 5
    /\ Len(preset_data) = 32 * 104

(***************************************************************************)
(* C3: the decoder accepts every container the encoder writes (magic       *)
(* found, marker found, decompression from the first marker succeeds) and  *)
(* returns exactly the payload the encoder compressed.                     *)
(***************************************************************************)
C3_RoundTrip ==
    (dec_src = "bank" /\ dec_pc \in { "raised", "done" }) =>
        /\ dec_pc = "done"
        /\ dec.raised = ""
        /\ dec.returned = << preset_data >>

(***************************************************************************)
(* C4: in the container written, the compressed-size field is at bytes     *)
(* 32..35, the marker at bytes 36..37 and the compressed payload starts at *)
(* byte 38 (offsets 0-based).                                              *)
(***************************************************************************)
C4_SizeFieldMarkerAndPayloadOffsets ==
    enc_pc = "done" =>
        /\ SubSeq(out_file, 33, 36) = pack_I(Len(compressed_data))
        /\ SubSeq(out_file, 37, 38) = ZlibMarker
        /\ Drop(out_file, 38) = compressed_data

(***************************************************************************)
(* C5: the little-endian uint32 at bytes 16..19 of the container equals    *)
(* the length of the container written.                                    *)
(***************************************************************************)
C5_TotalSizeField ==
    enc_pc = "done" => unpack_I(SubSeq(out_file, 17, 20)) = Len(out_file)

(***************************************************************************)
(* C6: a scalar parameter missing from a supplied preset is encoded with   *)
(* its documented default: cutoff 0.5, resonance 0.2, LFO rate 0.5,        *)
(* attack 0.1 and mode Air (0).                                            *)
(***************************************************************************)
HasDst(mods, dst) == \E j \in 1..Len(mods) : Contains(mods[j].dst, dst)

C6_MissingScalarsGetDefaults ==
    enc_pc = "done" =>
        \A k \in 1..NumInputs :
            LET p == emu_presets[k]
                r == RecordAt(k)
            IN  /\ ~HasDst(p.mods, S_filter_cutoff) => CutoffOf(r) = F_0_5
                /\ ~HasDst(p.mods, S_filter_t2) => ResonanceOf(r) = F_0_2
                /\ p.rateHz = << >> => LfoRateOf(r) = F_0_5
                /\ p.A = << >> => AttackOf(r) = F_0_1
                /\ p.mods = << >> => ModeOf(r) = << 0, 0, 0, 0 >>

(***************************************************************************)
(* C7: for a preset with m modulations the 8 slots of its record hold the  *)
(* first min(m, 8) entries in input order, each as float32 depth then      *)
(* uint32 source id (unrecognized source names give 0), and every other    *)
(* slot is 8 zero bytes; the slots of a default record are all zero.       *)
(***************************************************************************)
C7_ModulationSlots ==
    enc_pc = "done" =>
        \A k \in 1..32 : \A j \in 0..7 :
            LET mods == IF k <= NumInputs THEN emu_presets[k].mods ELSE << >>
            IN  SlotOf(RecordAt(k), j) =
                    IF j < Len(mods)
                    THEN pack_f(Get(mods[j + 1].depth, Rat(0, 1)))
                         \o pack_I(source_id(mods[j + 1].src))
                    ELSE Zeros(8)

\* a preset with more than 8 modulations, one of them from an unrecognized
\* source in the first 8, was encoded
C7_Witness ==
    /\ enc_pc = "done"
    /\ \E k \in 1..NumInputs :
          /\ Len(emu_presets[k].mods) > 8
          /\ \E j \in 1..8 :
                /\ \A t \in 1..Len(source_map) : source_map[t][1] # emu_presets[k].mods[j].src
                /\ SlotOf(RecordAt(k), j - 1)[5] = 0
          /\ SlotOf(RecordAt(k), 7) # Zeros(8)

(***************************************************************************)
(* C8: the stored mode is Punch (2) exactly when at least 2 sources        *)
(* contain "LFO" and at least 3 contain "ENV"; otherwise Liquid (1)        *)
(* exactly when at least 5 contain "KEY"; otherwise Air (0).               *)
(***************************************************************************)
CountSrc(mods, pat) == Cardinality({ j \in 1..Len(mods) : Contains(mods[j].src, pat) })

IsPunch(mods) == CountSrc(mods, S_LFO) >= 2 /\ CountSrc(mods, S_ENV) >= 3
IsLiquid(mods) == CountSrc(mods, S_KEY) >= 5

C8_ModeClassification ==
    enc_pc = "done" =>
        \A k \in 1..NumInputs :
            LET mods == emu_presets[k].mods
                mode == ModeOf(RecordAt(k))
            IN  /\ mode = << 2, 0, 0, 0 >> <=> IsPunch(mods)
                /\ mode = << 1, 0, 0, 0 >> <=> (~IsPunch(mods) /\ IsLiquid(mods))
                /\ mode = << 0, 0, 0, 0 >> <=> (~IsPunch(mods) /\ ~IsLiquid(mods))

\* a preset that passes both the Punch and the Liquid test was encoded as Punch
C8_Witness ==
    /\ enc_pc = "done"
    /\ \E k \in 1..NumInputs :
          /\ IsPunch(emu_presets[k].mods)
          /\ IsLiquid(emu_presets[k].mods)
          /\ ModeOf(RecordAt(k)) = << 2, 0, 0, 0 >>

(***************************************************************************)
(* C9: a decode call that fails (no magic, no marker, or a corrupt or      *)
(* truncated stream) raises, returns no buffer and has created neither the *)
(* output directory nor any file; nothing is created before decompression  *)
(* has succeeded.                                                          *)
(***************************************************************************)
C9_FailedDecodeLeavesNothing ==
    /\ dec_pc = "raised" =>
          /\ dec.raised # ""
          /\ dec.returned = << >>
          /\ fs = NoFs
    /\ fs # NoFs => dec.decompressed # << >>
    /\ (dec_pc \in { "scan", "found" } \/ dec.raised # "") => fs = NoFs

\* a container with valid magic and marker but a truncated stream was refused
C9_Witness ==
    /\ dec_pc = "raised"
    /\ dec.raised = "Decompression failed"
    /\ Take(dec.data, 4) = S_SVZa
    /\ dec.zlib_start >= 0
    /\ fs = NoFs

(***************************************************************************)
(* C10: once decompression has succeeded the decoder raises nothing; for a *)
(* payload of zero bytes, or one with no printable run, too few floats and *)
(* no signature, every recovery pass yields an empty result.               *)
(***************************************************************************)
Printable(b) == 32 <= b /\ b <= 126

NoPrintableRun(P) ==
    ~ \E i \in 1..(Len(P) - 5) : \A j \in i..(i + 5) : Printable(P[j])

NoSignature(P) == \A t \in 1..Len(emu_markers) : ~Contains(P, emu_markers[t])

C10_ContentlessPayloadDecodes ==
    /\ dec.decompressed # << >> => (dec.raised = "" /\ dec_pc # "raised")
    /\ dec_pc = "done" =>
          LET P == dec.decompressed[1]
          IN  /\ dec.returned = << P >>
              /\ NoPrintableRun(P) => (dec.strings = << >> /\ fs.strings_file = << >>)
              /\ Len(P) < 4 * 100 => (dec.candidates = { } /\ fs.coeff_files = { })
              /\ NoSignature(P) => dec.signatures = << >>
              /\ P = << >> =>
                    /\ dec.strings = << >>
                    /\ dec.candidates = { }
                    /\ dec.signatures = << >>
                    /\ fs = [NoFs EXCEPT !.out_dir = TRUE, !.raw_file = << << >> >>]

\* an empty payload was decoded to the end
C10_Witness ==
    /\ dec_pc = "done"
    /\ dec_src = "third"
    /\ dec.decompressed = << << >> >>
    /\ dec.raised = ""

(***************************************************************************)
(* C11: after a successful decompression no recovery pass stops another.   *)
(* The analysis never raises, whichever pass fails (numpy cannot be        *)
(* imported) or comes back empty; every position after a pass holds the    *)
(* result of that pass and of the passes before it, each the one the       *)
(* payload alone determines; and when the analysis is over all three       *)
(* passes have run.                                                        *)
(***************************************************************************)
AfterStrings == { "strings", "coefficients", "analyzed", "done" }
AfterCoefficients == { "coefficients", "analyzed", "done" }
AfterSignatures == { "analyzed", "done" }

C11_PassesIndependent ==
    /\ dec.decompressed # << >> => (dec_pc # "raised" /\ dec.raised = "")
    /\ dec_pc \in AfterStrings =>
          /\ dec.strings = find_ascii_strings(dec.decompressed[1])
          /\ fs.strings_file = IF dec.strings = << >> THEN << >> ELSE << dec.strings >>
    /\ dec_pc \in AfterCoefficients =>
          /\ dec.numpy # << >>
          /\ dec.candidates = IF dec.numpy[1]
                              THEN coefficient_loop(dec.decompressed[1], 1, { }).found
                              ELSE { }
    /\ dec_pc \in AfterSignatures =>
          dec.signatures = check_emu_signatures(dec.decompressed[1])
    /\ dec_pc \notin AfterCoefficients => dec.numpy = << >>

\* the string pass found nothing and the coefficient pass failed on the
\* import, and the signature scan still reported its hit
C11_Witness ==
    /\ dec_pc = "done"
    /\ dec.strings = << >>
    /\ dec.numpy = << FALSE >>
    /\ dec.signatures # << >>

(***************************************************************************)
(* C12: for each alignment offset in {0, 4, 8, 16} a candidate coefficient *)
(* array is written for that offset if and only if at least 100 of the     *)
(* float32 values read from the suffix, cut to a multiple of 4 bytes, are  *)
(* finite with magnitude <= 10.0; exactly 100 such values give a           *)
(* candidate.                                                              *)
(***************************************************************************)
\* the float32 at bytes i..i+3 of P (1-based) is finite with magnitude <= 10.0,
\* that is, its bits without the sign are at most 0x41200000
Survives(P, i) ==
    LET exponent == (P[i + 3] % 128) * 2 + (P[i + 2] \div 128)
        fraction == (P[i + 2] % 128) * 65536 + P[i + 1] * 256 + P[i]
    IN  exponent < 130 \/ (exponent = 130 /\ fraction <= 2097152)

\* how many float32 values of P[offset:] survive
Survivors(P, offset) ==
    Cardinality({ k \in 1..((Len(P) - offset) \div 4) : Survives(P, offset + 4 * k - 3) })

C12_CandidateIffAtLeast100 ==
    (dec_pc \in AfterCoefficients /\ dec.numpy = << TRUE >>) =>
        \A offset \in { 0, 4, 8, 16 } :
            offset \in fs.coeff_files <=> Survivors(dec.decompressed[1], offset) >= 100

(***************************************************************************)
(* C13: find_ascii_strings returns, in stream order, exactly the maximal   *)
(* runs of bytes in 32..126 whose length is between 6 and 200 inclusive; a *)
(* shorter or longer run is dropped whole, never cut into pieces, and a    *)
(* run of accepted length that ends with the data is returned too.         *)
(***************************************************************************)
\* the positions where a maximal run of bytes in 32..126 starts
RunStarts(P) == { i \in 1..Len(P) : Printable(P[i]) /\ (i = 1 \/ ~Printable(P[i - 1])) }

\* the last position of the maximal run that starts at i
RunEnd(P, i) ==
    CHOOSE j \in i..Len(P) :
        /\ \A k \in i..j : Printable(P[k])
        /\ j = Len(P) \/ ~Printable(P[j + 1])

\* the starts of the maximal runs of 6 to 200 bytes
KeptRuns(P) ==
    { i \in RunStarts(P) : 6 <= RunEnd(P, i) - i + 1 /\ RunEnd(P, i) - i + 1 <= 200 }

C13_MaximalRuns ==
    dec_pc \in AfterStrings =>
        LET P == dec.decompressed[1]
            kept == KeptRuns(P)
        IN  /\ Len(dec.strings) = Cardinality(kept)
            /\ \A i \in kept :
                  dec.strings[Cardinality({ t \in kept : t <= i })] = SubSeq(P, i, RunEnd(P, i))

\* a run of 201 bytes was dropped whole and the run of 200 bytes that ends
\* with the data was returned
C13_Witness ==
    /\ dec_pc = "done"
    /\ LET P == dec.decompressed[1]
       IN  /\ Len(P) = 201 + 1 + 200
           /\ \A k \in 1..201 : Printable(P[k])
           /\ ~Printable(P[202])
           /\ dec.strings = << SubSeq(P, 203, 402) >>

(***************************************************************************)
(* The pole transform: what the claims speak of.                           *)
(***************************************************************************)
\* the radius lies in [0, 1)
InUnitInterval(r) == FLe(FZero, r) /\ FLt(r, FromInt(1))

\* convert_pole has returned and its pole is the last one of new_poles
PoleReturned == sr_pc = "pole" /\ sr.j > 1

ReturnedRadius == sr.new_poles[sr.j - 1].r

\* the poles of the file read and of the file written, shape by shape
PolePositions ==
    { << i, j >> \in (1..2) \X (1..2) :
         /\ i <= Len(sr.loaded[1].shapes)
         /\ j <= Len(sr.loaded[1].shapes[i].poles) }

(***************************************************************************)
(* C14: for an input pole with radius in [0, 1), whatever the ratio, the   *)
(* radius convert_pole returns is strictly less than 1.0, and so is the    *)
(* radius of every pole of the file written that comes from such a pole.   *)
(***************************************************************************)
C14_RadiusBelowOne ==
    /\ PoleReturned /\ InUnitInterval(sr.r_src) => FLt(ReturnedRadius, FromInt(1))
    /\ sr_pc = "returned" =>
          \A p \in PolePositions :
             InUnitInterval(sr.loaded[1].shapes[p[1]].poles[p[2]].r) =>
                FLt(shape_files[sr.output_path][1].shapes[p[1]].poles[p[2]].r, FromInt(1))

\* the radius just below 1.0 whose power came out as 1.0 has been written
\* below 1.0
C14_Witness ==
    /\ sr_pc = "returned"
    /\ sr.r_src = BelowOne
    /\ FLt(sr.fs_ratio, FromInt(1))
    /\ sr.r_pow = FromInt(1)
    /\ FLt(shape_files[sr.output_path][1].shapes[1].poles[1].r, FromInt(1))

(***************************************************************************)
(* C15 as stated: convert_pole alters the power-law radius only when it is *)
(* >= 1.0, returning 0.9999 then; a power-law radius below 1.0, the values *)
(* between 0.9999 and 1.0 included, is returned unchanged.                 *)
(***************************************************************************)
C15_ClampOnlyFromOne ==
    PoleReturned =>
       IF FLe(FromInt(1), sr.r_pow) THEN ReturnedRadius = FDivInt(9999, 10000)
       ELSE ReturnedRadius = sr.r_pow

(***************************************************************************)
(* C15 amended: convert_pole alters the power-law radius exactly when it   *)
(* is greater than 0.9999, returning 0.9999 then; a power-law radius of at *)
(* most 0.9999 is returned unchanged.                                      *)
(***************************************************************************)
C15_ClampAboveLimit ==
    PoleReturned =>
       IF FLt(FDivInt(9999, 10000), sr.r_pow) THEN ReturnedRadius = FDivInt(9999, 10000)
       ELSE ReturnedRadius = sr.r_pow

\* a power-law radius strictly between 0.9999 and 1.0 came back as 0.9999
C15_Witness ==
    /\ PoleReturned
    /\ FLt(FDivInt(9999, 10000), sr.r_pow)
    /\ FLt(sr.r_pow, FromInt(1))
    /\ ReturnedRadius = FDivInt(9999, 10000)

\* |x|
FAbs(x) == [x EXCEPT !.s = 0]

\* x - y = k * (2 * math.pi) as real numbers, without any rounding
ExactTurns(x, y, k) ==
    LET e == Min(Min(x.e, y.e), TWO_PI.e)
        xm == BShl(x.m, x.e - e)
        ym == BShl(y.m, y.e - e)
        tm == BMulSmall(BShl(TWO_PI.m, TWO_PI.e - e), Abs(k))
        none == << >>
    IN  BAdd(BAdd(IF x.s = 0 THEN xm ELSE none, IF y.s = 1 THEN ym ELSE none),
             IF k < 0 THEN tm ELSE none)
        = BAdd(BAdd(IF x.s = 1 THEN xm ELSE none, IF y.s = 0 THEN ym ELSE none),
               IF k > 0 THEN tm ELSE none)

(***************************************************************************)
(* C16: wrap_angle terminates for every finite angle: every turn of either *)
(* loop moves theta; the value w returned satisfies -pi < w <= pi; -pi     *)
(* comes back as +pi and +pi unchanged; and for an angle within one turn   *)
(* of the interval (where the float subtraction is exact) w differs from   *)
(* the angle by exactly -1, 0 or 1 times 2*pi.                             *)
(***************************************************************************)
C16_WrapAngle ==
    /\ sr_pc = "wrap_down" /\ FLt(PI, sr.theta) => FSub(sr.theta, TWO_PI) # sr.theta
    /\ sr_pc = "wrap_up" /\ FLe(sr.theta, FNeg(PI)) => FAdd(sr.theta, TWO_PI) # sr.theta
    /\ sr_pc = "clamp" =>
          /\ FLt(FNeg(PI), sr.theta) /\ FLe(sr.theta, PI)
          /\ sr.theta_dst = FNeg(PI) => sr.theta = PI
          /\ sr.theta_dst = PI => sr.theta = PI
          /\ FLe(FAbs(sr.theta_dst), FMul(FromInt(3), PI)) =>
                \E k \in -1..1 : ExactTurns(sr.theta_dst, sr.theta, k)

(***************************************************************************)
(* C17: when convert_shapes_file has returned, the input file still holds  *)
(* what was loaded from it, poles and sample-rate reference, wherever the  *)
(* output was written.                                                     *)
(***************************************************************************)
C17_InputKept ==
    sr_pc = "returned" => shape_files[sr.input_path] = sr.loaded

(***************************************************************************)
(* C18: a pole whose radius lies outside [0, 1) is not converted: no pole  *)
(* comes back from convert_pole for it, and the call ends with a           *)
(* NumericDomainError.                                                     *)
(***************************************************************************)
C18_DomainError ==
    /\ PoleReturned => InUnitInterval(sr.r_src)
    /\ sr_pc \in { "wrap_down", "wrap_up", "clamp" } => InUnitInterval(sr.r_src)
    /\ sr_pc = "raised" => sr.raised = "NumericDomainError"
    /\ sr_pc = "returned" =>
          \A p \in PolePositions : InUnitInterval(sr.loaded[1].shapes[p[1]].poles[p[2]].r)

(***************************************************************************)
(* C19: for a preset with more than 8 modulations the stored mode is the   *)
(* one the complete modulation list gives, the entries beyond the 8th      *)
(* counted: Punch, else Liquid, else Air by the thresholds on the whole    *)
(* list, whatever the 8 entries kept in the record would give alone.       *)
(***************************************************************************)
C19_ModeFromCompleteList ==
    enc_pc = "done" =>
        \A k \in 1..NumInputs :
            LET mods == emu_presets[k].mods
            IN  Len(mods) > ModSlots =>
                   ModeOf(RecordAt(k)) =
                      IF IsPunch(mods) THEN << 2, 0, 0, 0 >>
                      ELSE IF IsLiquid(mods) THEN << 1, 0, 0, 0 >>
                      ELSE << 0, 0, 0, 0 >>

\* a record holds Punch although the 8 entries kept in it give Air alone
C19_Witness ==
    /\ enc_pc = "done"
    /\ \E k \in 1..NumInputs :
          LET kept == Take(emu_presets[k].mods, ModSlots)
          IN  /\ Len(emu_presets[k].mods) > ModSlots
              /\ ~IsPunch(kept)
              /\ ~IsLiquid(kept)
              /\ ModeOf(RecordAt(k)) = << 2, 0, 0, 0 >>

====
